---- MODULE Spec2Model ----
(***************************************************************************)
(* A model of src/index.js: a keyed record store over one named range of   *)
(* a remote spreadsheet (query / fields / insert / update), with the pure  *)
(* helpers it is built from.                                               *)
(*                                                                         *)
(* Strings are sequences of character codes ("A" is <<65>>), so that       *)
(* trimming, number parsing, number formatting and the column letters are  *)
(* computed the way the code computes them.  A JavaScript value is a       *)
(* record [t, v]: t is the type tag and v a sequence (the characters of a  *)
(* string, the one-element sequence of a number, empty otherwise).         *)
(***************************************************************************)
EXTENDS Integers, Sequences, FiniteSets, TLC

VARIABLES
    sheet,          \* the remote range: rows of cells, header row first
    pc,             \* position of the call in progress
    call,           \* the call in progress and its arguments as passed
    newData,        \* _insert: the batch (records, mutated in place)
    data,           \* local `data` of _insert / _update
    fields,         \* local `fields` of _insert / _update
    newRows,        \* _insert: rows built so far
    ret,            \* how the call ended and what it returned
    appendCalls,    \* values.append requests issued by the call
    batchCalls,     \* values.batchUpdate requests issued by the call
    fieldsCalls,    \* number of _fields() invocations of the call
    queryHeader,    \* header row of the block _query() projected `data` from
    fetched,        \* the records _query() returned at the start of the call
    generated,      \* _insert: batch positions whose ID was generated
    fnArgs,         \* arguments of the pure function under check
    fnRet           \* <<>> until applied, then <<result>>

vars == <<sheet, pc, call, newData, data, fields, newRows, ret,
          appendCalls, batchCalls, fieldsCalls, queryHeader, fetched,
          generated, fnArgs, fnRet>>

callVars == <<sheet, pc, call, newData, data, fields, newRows, ret,
              appendCalls, batchCalls, fieldsCalls, queryHeader, fetched,
              generated>>

(***************************************************************************)
(* JavaScript values                                                       *)
(***************************************************************************)
Undefined == [t |-> "undefined", v |-> <<>>]
Null == [t |-> "null", v |-> <<>>]
NaN == [t |-> "number", v |-> <<>>]
Str(s) == [t |-> "string", v |-> s]
Num(n) == [t |-> "number", v |-> <<n>>]

Range(s) == {s[i] : i \in 1..Len(s)}

\* String.prototype.trim, on the one white-space character of the model (32).
RECURSIVE trimStart(_)
trimStart(s) == IF s # <<>> /\ Head(s) = 32 THEN trimStart(Tail(s)) ELSE s

RECURSIVE trimEnd(_)
trimEnd(s) ==
    IF s # <<>> /\ s[Len(s)] = 32 THEN trimEnd(SubSeq(s, 1, Len(s) - 1)) ELSE s

trim(s) == trimEnd(trimStart(s))

\* Value of a string of decimal digits.
RECURSIVE DecimalValue(_)
DecimalValue(s) ==
    IF s = <<>> THEN 0
    ELSE 10 * DecimalValue(SubSeq(s, 1, Len(s) - 1)) + (s[Len(s)] - 48)

\* Number(a).  A string is trimmed; the empty string is 0; a string of
\* decimal digits is its value; any other string of the model's alphabet
\* (digits, letters A-Z and a-z other than literals such as "1e3" or
\* "Infinity", space) is NaN.  Number(undefined) is NaN and Number(null) 0.
Number(a) ==
    CASE a.t = "number" -> a
      [] a.t = "undefined" -> NaN
      [] a.t = "null" -> Num(0)
      [] a.t = "string" ->
            LET s == trim(a.v)
            IN  IF \A i \in 1..Len(s) : s[i] \in 48..57
                THEN Num(DecimalValue(s))
                ELSE NaN

isNaN(n) == n = NaN

\* a === b : same type and same value, and NaN equals nothing.
StrictEquals(a, b) == a = b /\ a # NaN

\* Decimal digits of a natural number (Number.prototype.toString).
RECURSIVE DecimalDigits(_)
DecimalDigits(n) ==
    IF n < 10 THEN <<48 + n>> ELSE DecimalDigits(n \div 10) \o <<48 + (n % 10)>>

\* value.toString() for the values toString is called on (strings, numbers).
toString(a) ==
    CASE a.t = "string" -> a.v
      [] a.t = "number" -> IF a = NaN THEN <<78, 97, 78>> ELSE DecimalDigits(a.v[1])

\* obj[key] : the own property, or undefined.
Get(obj, key) == IF key \in DOMAIN obj THEN obj[key] ELSE Undefined

(***************************************************************************)
(* src/index.js 9-41: the pure helpers                                     *)
(***************************************************************************)
convertObjectToRow_NoTrim(flds, newProps) ==
    [i \in 1..Len(flds) |->
        IF Get(newProps, flds[i]) \notin {Undefined, Null}
        THEN toString(Get(newProps, flds[i]))
        ELSE <<>>]

convertObjectToRow(flds, newProps) ==
    [i \in 1..Len(flds) |->
        IF Get(newProps, flds[i]) \notin {Undefined, Null}
        THEN trim(toString(Get(newProps, flds[i])))
        ELSE <<>>]

RECURSIVE zeroBasedColumnNumberToSpreadsheetColumnLetters_Positional(_)
zeroBasedColumnNumberToSpreadsheetColumnLetters_Positional(num) ==
    LET modulo == num % 26
        letter == <<65 + modulo>>
        remainder == num \div 26
    IN  IF remainder = 0 THEN letter
        ELSE zeroBasedColumnNumberToSpreadsheetColumnLetters_Positional(remainder)
                \o letter

RECURSIVE zeroBasedColumnNumberToSpreadsheetColumnLetters(_)
zeroBasedColumnNumberToSpreadsheetColumnLetters(num) ==
    LET modulo == num % 26
        letter == <<65 + modulo>>
        remainder == num \div 26
    IN  IF remainder = 0 THEN letter
        ELSE zeroBasedColumnNumberToSpreadsheetColumnLetters(remainder - 1)
                \o letter

areEqual(a, b) ==
    IF StrictEquals(a, b) THEN TRUE
    ELSE IF ~isNaN(Number(a)) /\ ~isNaN(Number(b))
            /\ StrictEquals(Number(a), Number(b))
         THEN TRUE
         ELSE FALSE

\* A query is [present |-> FALSE] when the argument is omitted, and otherwise
\* carries the own enumerable properties of the criteria object.
NoQuery == [present |-> FALSE, props |-> <<>>]
Query(props) == [present |-> TRUE, props |-> props]

dataMatchesQuery(dataRow, q) ==
    IF ~q.present THEN TRUE
    ELSE \A prop \in DOMAIN q.props :
            areEqual(Get(dataRow, prop), q.props[prop])

(***************************************************************************)
(* Fixed strings and the bounded inputs                                    *)
(***************************************************************************)
ID == <<73, 68>>                      \* "ID"
sheetName == <<83, 49>>               \* "S1", the range the store is built on
colN == <<78>>                        \* "N"
colS == <<83>>                        \* "S"
colT == <<84>>                        \* "T"
idA1 == <<65, 49>>                    \* "A1"
idB2 == <<66, 50>>                    \* "B2"
open == <<111>>                       \* "o"
closed == <<99>>                      \* "c"
five == <<53>>                        \* "5"

\* Number of values the four random bytes of an identifier range over
\* (2^32 in the program).
RandSpace == 2

\* A call starts only while the range holds at most this many data rows.
MaxDataRows == 2

\* Largest column index the column-letter check covers ("AAA" is 702).
MaxCol == 702

HexDigit(d) == IF d < 10 THEN 48 + d ELSE 55 + d

\* Buffer.toString("hex").toUpperCase() of the 4 bytes whose value is n.
RECURSIVE Hex(_, _)
Hex(n, width) ==
    IF width = 0 THEN <<>> ELSE Hex(n \div 16, width - 1) \o <<HexDigit(n % 16)>>

randomId(n) == Hex(n, 8)

\* The contents an external writer may give the range.
Sheets ==
    { << <<colN, colS>> >>,
      << <<colN, colS>>, <<idA1, open>>, <<randomId(0), five>> >>,
      << <<colN, colS, colT, colS>>, <<idA1, open, closed, five>>, <<idB2>> >>,
      << <<colN, colT>>, <<idA1, open>> >> }

\* Arguments of insert: one record, or an array of records.
InsertArgs ==
    { [array |-> FALSE, items |-> <<(colS :> Str(open))>>],
      [array |-> TRUE,
       items |-> <<(colS :> Str(open)),
                   (ID :> Str(randomId(1)) @@ colS :> Str(<<32, 99>>))>>],
      [array |-> TRUE,
       items |-> <<(ID :> Str(idB2) @@ colT :> Num(5)), (colS :> Str(closed))>>] }

\* Criteria of update.
Queries ==
    { NoQuery,
      Query(ID :> Str(idA1)),
      Query(ID :> Str(<<110>>)),
      Query(colS :> Num(5)) }

\* Patches of update: the own properties in enumeration order.
Patches ==
    { <<>>,
      << [prop |-> colS, value |-> Str(closed)] >>,
      << [prop |-> colS, value |-> Num(5)], [prop |-> colT, value |-> Str(open)] >> }

(***************************************************************************)
(* src/index.js 45-77: reading the range                                   *)
(***************************************************************************)
\* const [fields] = data.values; fields[0] = 'ID'
FieldsOf(block) ==
    IF block[1] = <<>> THEN <<ID>> ELSE [block[1] EXCEPT ![1] = ID]

\* The record built from one data row: fields.forEach assigns
\* newItem[fields[index]] = row[index] in index order, so the last column of
\* a name decides, and a cell beyond the end of the row is undefined.
ProjectRow_OneBased(flds, row) ==
    [name \in Range(flds) |->
        LET index == CHOOSE i \in 1..Len(flds) :
                        /\ flds[i] = name
                        /\ \A j \in (i + 1)..Len(flds) : flds[j] # name
        IN  IF index + 1 <= Len(row) THEN Str(row[index + 1]) ELSE Undefined]

ProjectRow(flds, row) ==
    [name \in Range(flds) |->
        LET index == CHOOSE i \in 1..Len(flds) :
                        /\ flds[i] = name
                        /\ \A j \in (i + 1)..Len(flds) : flds[j] # name
        IN  IF index <= Len(row) THEN Str(row[index]) ELSE Undefined]

\* rest.reduce(...): the records of the data rows that match, in row order.
RECURSIVE ProjectRows(_, _, _)
ProjectRows(flds, rest, q) ==
    IF rest = <<>> THEN <<>>
    ELSE LET newItem == ProjectRow(flds, Head(rest))
         IN  (IF dataMatchesQuery(newItem, q) THEN <<newItem>> ELSE <<>>)
                \o ProjectRows(flds, Tail(rest), q)

\* _query(query) on the block the fetch returned.
_query(block, q) == ProjectRows(FieldsOf(block), Tail(block), q)

\* _fields() on the block the fetch returned.
_fields(block) == FieldsOf(block)

(***************************************************************************)
(* src/index.js 114-168: the synchronous part of _update                   *)
(***************************************************************************)
\* fields.indexOf(prop): zero-based position of the first match, or -1.
indexOf_DefaultFirst(flds, prop) ==
    IF \E i \in 1..Len(flds) : flds[i] = prop
    THEN (CHOOSE i \in 1..Len(flds) :
            flds[i] = prop /\ \A j \in 1..(i - 1) : flds[j] # prop) - 1
    ELSE 0

indexOf(flds, prop) ==
    IF \E i \in 1..Len(flds) : flds[i] = prop
    THEN (CHOOSE i \in 1..Len(flds) :
            flds[i] = prop /\ \A j \in 1..(i - 1) : flds[j] # prop) - 1
    ELSE -1

\* `${sheetName}!${columnLetters}${dataRowIndex + 2}`
CellRange_NoHeaderRow(columnNumber, dataRowIndex) ==
    sheetName \o <<33>>
        \o zeroBasedColumnNumberToSpreadsheetColumnLetters(columnNumber)
        \o DecimalDigits(dataRowIndex + 1)

CellRange(columnNumber, dataRowIndex) ==
    sheetName \o <<33>>
        \o zeroBasedColumnNumberToSpreadsheetColumnLetters(columnNumber)
        \o DecimalDigits(dataRowIndex + 2)

\* updatedDataRow after the loop over the patch: {...dataRow} with every
\* patch property assigned.
UpdatedDataRow_Untouched(dataRow, vals) == dataRow

UpdatedDataRow(dataRow, vals) ==
    [name \in DOMAIN dataRow \cup {vals[j].prop : j \in 1..Len(vals)} |->
        IF \E j \in 1..Len(vals) : vals[j].prop = name
        THEN vals[CHOOSE j \in 1..Len(vals) : vals[j].prop = name].value
        ELSE dataRow[name]]

\* The writes one matching record adds to updateData, in patch order.
RowWrites(dataRowIndex, flds, vals) ==
    [j \in 1..Len(vals) |->
        [range |-> CellRange(indexOf(flds, vals[j].prop), dataRowIndex),
         values |-> << <<vals[j].value>> >>]]

\* The loop over Object.entries(data) from entry `dataRowIndex` on:
\* [threw, updateData, changedItems].  A patch property that is not in the
\* field list throws at the first matching record.
RECURSIVE UpdateLoop(_, _, _, _, _)
UpdateLoop(rows, dataRowIndex, flds, q, vals) ==
    IF dataRowIndex >= Len(rows)
    THEN [threw |-> FALSE, updateData |-> <<>>, changedItems |-> <<>>]
    ELSE LET dataRow == rows[dataRowIndex + 1]
             rest == UpdateLoop(rows, dataRowIndex + 1, flds, q, vals)
         IN  IF ~dataMatchesQuery(dataRow, q) THEN rest
             ELSE IF \E j \in 1..Len(vals) : indexOf(flds, vals[j].prop) = -1
             THEN [threw |-> TRUE, updateData |-> <<>>, changedItems |-> <<>>]
             ELSE [threw |-> rest.threw,
                   updateData |->
                       RowWrites(dataRowIndex, flds, vals) \o rest.updateData,
                   changedItems |->
                       (IF Len(vals) > 0
                        THEN <<UpdatedDataRow(dataRow, vals)>> ELSE <<>>)
                           \o rest.changedItems]

(***************************************************************************)
(* The remote service: what values.append and values.batchUpdate do to the *)
(* range (src/index.js 100-109 and 158-165 call them)                      *)
(***************************************************************************)
\* One-based column number of column letters (the service's A1 notation).
RECURSIVE ColumnOfLetters(_)
ColumnOfLetters(letters) ==
    IF letters = <<>> THEN 0
    ELSE 26 * ColumnOfLetters(SubSeq(letters, 1, Len(letters) - 1))
            + (letters[Len(letters)] - 64)

\* The cell "<sheetName>!<letters><row>" names: [row, col], both one-based.
ParseCellRange(range) ==
    LET cell == SubSeq(range, Len(sheetName) + 2, Len(range))
        nLetters == Cardinality({i \in 1..Len(cell) : cell[i] \in 65..90})
    IN  [row |-> DecimalValue(SubSeq(cell, nLetters + 1, Len(cell))),
         col |-> ColumnOfLetters(SubSeq(cell, 1, nLetters))]

SetCell(sh, r, c, s) ==
    LET padded == [i \in 1..(IF r > Len(sh) THEN r ELSE Len(sh)) |->
                        IF i <= Len(sh) THEN sh[i] ELSE <<>>]
        row == padded[r]
        newRow == [j \in 1..(IF c > Len(row) THEN c ELSE Len(row)) |->
                        IF j = c THEN s
                        ELSE IF j <= Len(row) THEN row[j] ELSE <<>>]
    IN  [padded EXCEPT ![r] = newRow]

\* values.batchUpdate: every write sets its one cell (RAW input; the range
\* reads back the value as text).
RECURSIVE ApplyWrites(_, _)
ApplyWrites(sh, writes) ==
    IF writes = <<>> THEN sh
    ELSE LET w == Head(writes)
             at == ParseCellRange(w.range)
         IN  ApplyWrites(SetCell(sh, at.row, at.col, toString(w.values[1][1])),
                         Tail(writes))

\* values.append with INSERT_ROWS: the rows follow the last row of the range.
AppendRows(sh, rows) == sh \o rows

(***************************************************************************)
(* The store: one call at a time, each await a step; the range is shared   *)
(* with writers the store does not control                                 *)
(***************************************************************************)
NoCall == [op |-> "none", arg |-> <<>>, query |-> NoQuery, values |-> <<>>]
NoRet == [status |-> "pending", value |-> <<>>]

CallIdle ==
    /\ pc = "idle"
    /\ call = NoCall
    /\ newData = <<>>
    /\ data = <<>>
    /\ fields = <<>>
    /\ newRows = <<>>
    /\ ret = NoRet
    /\ appendCalls = <<>>
    /\ batchCalls = <<>>
    /\ fieldsCalls = 0
    /\ queryHeader = <<>>
    /\ fetched = <<>>
    /\ generated = {}

Init ==
    /\ sheet \in Sheets
    /\ CallIdle
    /\ fnArgs = <<>>
    /\ fnRet = <<>>

\* Another writer replaces the contents of the range.
ExternalWrite ==
    /\ \E sh \in Sheets : sh # sheet /\ sheet' = sh
    /\ UNCHANGED <<pc, call, newData, data, fields, newRows, ret, appendCalls,
                   batchCalls, fieldsCalls, queryHeader, fetched, generated>>

\* insert(arg) is called.
InsertCall ==
    /\ pc = "idle"
    /\ Len(sheet) - 1 <= MaxDataRows
    /\ \E arg \in InsertArgs :
          call' = [NoCall EXCEPT !.op = "insert", !.arg = arg]
    /\ pc' = "insert_query"
    /\ UNCHANGED <<sheet, newData, data, fields, newRows, ret, appendCalls,
                   batchCalls, fieldsCalls, queryHeader, fetched, generated>>

\* line 80: const data = await _query()
InsertQuery ==
    /\ pc = "insert_query"
    /\ data' = _query(sheet, NoQuery)
    /\ fetched' = data'
    /\ queryHeader' = sheet[1]
    /\ pc' = "insert_fields"
    /\ UNCHANGED <<sheet, call, newData, fields, newRows, ret, appendCalls,
                   batchCalls, fieldsCalls, generated>>

\* lines 81-85: const fields = await _fields(); the batch becomes an array.
InsertFields ==
    /\ pc = "insert_fields"
    /\ fields' = _fields(sheet)
    /\ fieldsCalls' = fieldsCalls + 1
    /\ newData' = call.arg.items
    /\ newRows' = <<>>
    /\ pc' = "insert_loop"
    /\ UNCHANGED <<sheet, call, data, ret, appendCalls, batchCalls,
                   queryHeader, fetched, generated>>

\* lines 87-98: one round of the loop over the batch.  The do-while draws
\* identifiers until one is not the ID of a record of `data`: the round
\* ends with such a draw (and never ends when there is none).
InsertRecord ==
    /\ pc = "insert_loop"
    /\ Len(newRows) < Len(newData)
    /\ \E n \in 0..(RandSpace - 1) :
          LET k == Len(newRows) + 1
              noId == Get(newData[k], ID) = Undefined
              proposedId == Str(randomId(n))
              newProps == IF noId
                          THEN [name \in DOMAIN newData[k] \cup {ID} |->
                                  IF name = ID THEN proposedId
                                  ELSE newData[k][name]]
                          ELSE newData[k]
          IN  /\ noId => ~\E i \in 1..Len(data) :
                            StrictEquals(Get(data[i], ID), proposedId)
              /\ newData' = [newData EXCEPT ![k] = newProps]
              /\ generated' = IF noId THEN generated \cup {k} ELSE generated
              /\ data' = Append(data, newProps)
              /\ newRows' = Append(newRows, convertObjectToRow(fields, newProps))
    /\ UNCHANGED <<sheet, pc, call, fields, ret, appendCalls, batchCalls,
                   fieldsCalls, queryHeader, fetched>>

\* lines 100-111: the one values.append request, then return newData.
InsertAppend ==
    /\ pc = "insert_loop"
    /\ Len(newRows) = Len(newData)
    /\ appendCalls' = Append(appendCalls, newRows)
    /\ sheet' = AppendRows(sheet, newRows)
    /\ ret' = [status |-> "returned", value |-> newData]
    /\ pc' = "done"
    /\ UNCHANGED <<call, newData, data, fields, newRows, batchCalls,
                   fieldsCalls, queryHeader, fetched, generated>>

\* update(query, values) is called.
UpdateCall ==
    /\ pc = "idle"
    /\ Len(sheet) - 1 <= MaxDataRows
    /\ \E q \in Queries, vals \in Patches :
          call' = [NoCall EXCEPT !.op = "update", !.query = q, !.values = vals]
    /\ pc' = "update_query"
    /\ UNCHANGED <<sheet, newData, data, fields, newRows, ret, appendCalls,
                   batchCalls, fieldsCalls, queryHeader, fetched, generated>>

\* lines 115-120: const data = await _query(); return when it is empty.
UpdateQuery ==
    /\ pc = "update_query"
    /\ data' = _query(sheet, NoQuery)
    /\ fetched' = data'
    /\ queryHeader' = sheet[1]
    /\ IF Len(data') = 0
       THEN /\ ret' = [status |-> "undefined", value |-> <<>>]
            /\ pc' = "done"
       ELSE /\ ret' = ret
            /\ pc' = "update_fields"
    /\ UNCHANGED <<sheet, call, newData, fields, newRows, appendCalls,
                   batchCalls, fieldsCalls, generated>>

\* line 122: const fields = await _fields()
UpdateFields ==
    /\ pc = "update_fields"
    /\ fields' = _fields(sheet)
    /\ fieldsCalls' = fieldsCalls + 1
    /\ pc' = "update_loop"
    /\ UNCHANGED <<sheet, call, newData, data, newRows, ret, appendCalls,
                   batchCalls, queryHeader, fetched, generated>>

\* lines 123-167: the loop; it throws, or the one values.batchUpdate request
\* is issued and changedItems returned.
UpdateBatch ==
    /\ pc = "update_loop"
    /\ LET r == UpdateLoop(data, 0, fields, call.query, call.values)
       IN  IF r.threw
           THEN /\ ret' = [status |-> "threw", value |-> <<>>]
                /\ UNCHANGED <<sheet, batchCalls>>
           ELSE /\ batchCalls' = Append(batchCalls, r.updateData)
                /\ sheet' = ApplyWrites(sheet, r.updateData)
                /\ ret' = [status |-> "returned", value |-> r.changedItems]
    /\ pc' = "done"
    /\ UNCHANGED <<call, newData, data, fields, newRows, appendCalls,
                   fieldsCalls, queryHeader, fetched, generated>>

\* The call is over; its locals are gone.
Return ==
    /\ pc = "done"
    /\ pc' = "idle"
    /\ call' = NoCall
    /\ newData' = <<>>
    /\ data' = <<>>
    /\ fields' = <<>>
    /\ newRows' = <<>>
    /\ ret' = NoRet
    /\ appendCalls' = <<>>
    /\ batchCalls' = <<>>
    /\ fieldsCalls' = 0
    /\ queryHeader' = <<>>
    /\ fetched' = <<>>
    /\ generated' = {}
    /\ UNCHANGED sheet

Next ==
    /\ \/ ExternalWrite
       \/ InsertCall
       \/ InsertQuery
       \/ InsertFields
       \/ InsertRecord
       \/ InsertAppend
       \/ UpdateCall
       \/ UpdateQuery
       \/ UpdateFields
       \/ UpdateBatch
       \/ Return
    /\ UNCHANGED <<fnArgs, fnRet>>

Spec == Init /\ [][Next]_vars

(***************************************************************************)
(* The pure helpers on their own: the arguments are drawn by the initial   *)
(* state, and the one action applies the function                          *)
(***************************************************************************)
\* Longest header of the blocks of the round-trip check.
MaxHeader == 2

\* Most data rows of the blocks of the round-trip check.
MaxBlockRows == 1

StoreAtRest == sheet = << <<ID>> >> /\ CallIdle

EqValues ==
    { Undefined, NaN, Num(0), Num(5),
      Str(<<>>), Str(<<32>>), Str(<<48>>), Str(five), Str(<<48, 53>>),
      Str(<<97, 98, 99>>) }

InitEq ==
    /\ StoreAtRest
    /\ fnArgs \in EqValues \X EqValues
    /\ fnRet = <<>>

ApplyAreEqual ==
    /\ fnRet = <<>>
    /\ fnRet' = <<areEqual(fnArgs[1], fnArgs[2])>>
    /\ UNCHANGED <<fnArgs, callVars>>

SpecEq == InitEq /\ [][ApplyAreEqual]_vars

InitCodec ==
    /\ StoreAtRest
    /\ fnArgs \in {<<num>> : num \in 0..MaxCol}
    /\ fnRet = <<>>

ApplyColumnLetters ==
    /\ fnRet = <<>>
    /\ fnRet' = <<zeroBasedColumnNumberToSpreadsheetColumnLetters(fnArgs[1])>>
    /\ UNCHANGED <<fnArgs, callVars>>

SpecCodec == InitCodec /\ [][ApplyColumnLetters]_vars

SeqsUpTo(S, n) == UNION {[1..len -> S] : len \in 0..n}

\* Header + rows blocks: any header of 1..MaxHeader names (repeats and a
\* later "ID" included), rows shorter than, as long as, or one cell longer
\* than the header.
Blocks ==
    UNION { { <<header>> \o rows :
                rows \in SeqsUpTo(SeqsUpTo({open, <<32, 99>>}, Len(header) + 1),
                                  MaxBlockRows) \ {<<>>} } :
            header \in SeqsUpTo({colN, colS, ID}, MaxHeader) \ {<<>>} }

InitProj ==
    /\ StoreAtRest
    /\ fnArgs \in {<<block>> : block \in Blocks}
    /\ fnRet = <<>>

\* Project the block to records, then convert every record back to a row
\* with the same field list.
ApplyRoundTrip ==
    /\ fnRet = <<>>
    /\ LET records == _query(fnArgs[1], NoQuery)
           flds == _fields(fnArgs[1])
       IN  fnRet' = << [r \in 1..Len(records) |->
                            convertObjectToRow(flds, records[r])] >>
    /\ UNCHANGED <<fnArgs, callVars>>

SpecProj == InitProj /\ [][ApplyRoundTrip]_vars

(***************************************************************************)
(* The claims                                                              *)
(***************************************************************************)
UpdateOver == pc = "done" /\ call.op = "update"
InsertOver == pc = "done" /\ call.op = "insert"

\* Positions (one-based) of the fetched records that match the criteria.
Matching == {i \in 1..Len(fetched) : dataMatchesQuery(fetched[i], call.query)}

PatchProps == {call.values[j].prop : j \in 1..Len(call.values)}

\* C1: an update that finds no record matching its criteria issues no
\* batch update call at all, does not fetch the field list, and returns
\* without a value.
C1_NoMatchShortCircuits ==
    (UpdateOver /\ Matching = {}) =>
        /\ batchCalls = <<>>
        /\ fieldsCalls = 0
        /\ ret.status = "undefined"

\* C2 as stated: whatever the range and the criteria, an update whose patch
\* names a field that is not in the field list of the range fails with an
\* error, and no remote write call is issued at any point of the call.
C2_UnknownFieldAlwaysFails ==
    (call.op = "update" /\ queryHeader # <<>>
        /\ ~(PatchProps \subseteq Range(FieldsOf(<<queryHeader>>)))) =>
        /\ batchCalls = <<>>
        /\ appendCalls = <<>>
        /\ pc = "done" => ret.status = "threw"

\* C2 amended: when at least one record matches the criteria and the patch
\* names a field that is not in the field list, the update fails with an
\* error, and no remote write call is issued at any point of the call.
C2_UnknownFieldFailsOnMatch ==
    (call.op = "update" /\ fieldsCalls > 0 /\ Matching # {}
        /\ ~(PatchProps \subseteq Range(fields))) =>
        /\ batchCalls = <<>>
        /\ appendCalls = <<>>
        /\ pc = "done" => ret.status = "threw"

C2_Witness ==
    /\ UpdateOver
    /\ ret.status = "threw"
    /\ Matching # {}
    /\ Len(call.values) = 2
    /\ call.values[1].prop \in Range(fields)
    /\ call.values[2].prop \notin Range(fields)

\* C3: every identifier an insert generates differs from the identifier of
\* every record fetched at the start of the call and from the identifier of
\* every other record of the batch.
C3_GeneratedIdsUnique ==
    InsertOver =>
        \A k \in generated :
            /\ \A i \in 1..Len(fetched) : Get(fetched[i], ID) # newData[k][ID]
            /\ \A j \in 1..Len(newData) :
                    j # k => Get(newData[j], ID) # newData[k][ID]

\* What C4 calls parseable as a number: a number, or a string that is not
\* empty and reads as one; absent values are not.
C4_Parseable(a) ==
    \/ a.t = "number" /\ a # NaN
    \/ a.t = "string" /\ a.v # <<>> /\ ~isNaN(Number(a))

\* C4: areEqual(a, b) is true exactly when a and b are strictly identical,
\* or both are parseable as numbers and numerically equal, the empty string
\* and absent values not being numbers (so equal("", 0) is false).
C4_AreEqualContract ==
    fnRet # <<>> =>
        LET a == fnArgs[1]
            b == fnArgs[2]
        IN  fnRet[1] = (\/ StrictEquals(a, b)
                        \/ /\ C4_Parseable(a)
                           /\ C4_Parseable(b)
                           /\ Number(a) = Number(b))

\* Zero-based first-match position of a field name in the field list.
FirstPosition(name) ==
    (CHOOSE c \in 1..Len(fields) :
        fields[c] = name /\ \A d \in 1..(c - 1) : fields[d] # name) - 1

\* The single-cell write C5 expects for the record at one-based position i
\* and the j-th patch field.
C5_ExpectedWrite(i, j) ==
    [range |-> sheetName \o <<33>>
                \o zeroBasedColumnNumberToSpreadsheetColumnLetters(
                        FirstPosition(call.values[j].prop))
                \o DecimalDigits((i - 1) + 2),
     values |-> << <<call.values[j].value>> >>]

\* C5: an update that matches at least one record, with every patch field
\* in the field list, issues exactly one batch update call, holding exactly
\* one single-cell write per (matching record, patch field): the cell
\* sheet!letters(c)(i+2) for zero-based row i and first-match column c,
\* carrying the patch value.
C5_OneBatchOfCellWrites ==
    (UpdateOver /\ Matching # {} /\ fieldsCalls > 0
        /\ PatchProps \subseteq Range(fields)) =>
        /\ Len(batchCalls) = 1
        /\ appendCalls = <<>>
        /\ Len(batchCalls[1]) = Cardinality(Matching) * Len(call.values)
        /\ Range(batchCalls[1]) =
              {C5_ExpectedWrite(i, j) : i \in Matching, j \in 1..Len(call.values)}

C5_Witness ==
    /\ UpdateOver
    /\ Cardinality(Matching) = 2
    /\ Len(call.values) = 2
    /\ Len(batchCalls) = 1
    /\ Len(batchCalls[1]) = 4
    /\ \E w \in Range(batchCalls[1]) : w.range = sheetName \o <<33, 67, 51>>

\* The matching positions in row order.
MatchingInOrder ==
    SelectSeq([i \in 1..Len(fetched) |-> i], LAMBDA i : i \in Matching)

C7_ExpectedCell(record, name) ==
    IF name \in DOMAIN record /\ record[name] \notin {Undefined, Null}
    THEN trim(toString(record[name]))
    ELSE <<>>

\* C7: an insert issues exactly one append call, after all rows are built;
\* it appends one row per input record in input order, each with one string
\* per field in field-list order; and it returns the input records in input
\* order.
C7_OneAppendOfAllRows ==
    call.op = "insert" =>
        /\ batchCalls = <<>>
        /\ pc # "done" => appendCalls = <<>>
        /\ pc = "done" =>
            /\ Len(appendCalls) = 1
            /\ ret.status = "returned"
            /\ Len(ret.value) = Len(call.arg.items)
            /\ Len(appendCalls[1]) = Len(call.arg.items)
            /\ \A i \in 1..Len(call.arg.items) :
                  /\ DOMAIN ret.value[i] = DOMAIN call.arg.items[i] \cup {ID}
                  /\ \A name \in DOMAIN call.arg.items[i] :
                        ret.value[i][name] = call.arg.items[i][name]
                  /\ Len(appendCalls[1][i]) = Len(fields)
                  /\ \A j \in 1..Len(fields) :
                        appendCalls[1][i][j] =
                            C7_ExpectedCell(ret.value[i], fields[j])

C7_Witness ==
    /\ InsertOver
    /\ Len(appendCalls) = 1
    /\ Len(appendCalls[1]) = 2
    /\ generated = {1}
    /\ Len(fields) = 4
    /\ appendCalls[1][2][2] = closed

NoRepeats(seq) == \A i, j \in 1..Len(seq) : seq[i] = seq[j] => i = j

\* A data row as the round trip should give it back: every cell trimmed, and
\* the cells the row lacks as empty strings.
C8_ExpectedRow(header, row) ==
    [j \in 1..(IF Len(row) > Len(header) THEN Len(row) ELSE Len(header)) |->
        IF j <= Len(row) THEN trim(row[j]) ELSE <<>>]

C8_RoundTripOf(block) ==
    \A r \in 1..(Len(block) - 1) :
        /\ r <= Len(fnRet[1])
        /\ fnRet[1][r] = C8_ExpectedRow(block[1], block[r + 1])

\* C8 as stated: for every header+rows block with rows no longer than the
\* header, repeated header names and a later column named "ID" included,
\* projecting to records and converting back reproduces the data rows up to
\* trimming and empty-string padding.
C8_RoundTripEveryBlock ==
    (/\ fnRet # <<>>
     /\ \A r \in 2..Len(fnArgs[1]) : Len(fnArgs[1][r]) <= Len(fnArgs[1][1])) =>
        C8_RoundTripOf(fnArgs[1])

\* C8 amended: the round trip reproduces the data rows (trimmed, padded with
\* empty strings) for every block whose field list, the header with column
\* 0 renamed to "ID", has no repeated name and whose rows are no longer
\* than the header.
C8_RoundTripDistinctNames ==
    (/\ fnRet # <<>>
     /\ NoRepeats(FieldsOf(fnArgs[1]))
     /\ \A r \in 2..Len(fnArgs[1]) : Len(fnArgs[1][r]) <= Len(fnArgs[1][1])) =>
        C8_RoundTripOf(fnArgs[1])

C8_Witness ==
    /\ fnRet # <<>>
    /\ fnArgs[1] = << <<colN, colS>>, <<<<32, 99>>>> >>
    /\ fnRet[1] = << <<closed, <<>>>> >>

\* Length first, then alphabetical.
RECURSIVE LexLess(_, _)
LexLess(s, t) ==
    /\ s # <<>>
    /\ \/ Head(s) < Head(t)
       \/ Head(s) = Head(t) /\ LexLess(Tail(s), Tail(t))

ShortLexLess(s, t) == Len(s) < Len(t) \/ (Len(s) = Len(t) /\ LexLess(s, t))

\* C9: the column letters are bijective base 26: 0 is "A", 25 "Z", 26 "AA",
\* 701 "ZZ", 702 "AAA", and the letters of a smaller index come strictly
\* before those of a larger one, length first and then alphabetically.
C9_ColumnLetters ==
    fnRet # <<>> =>
        LET num == fnArgs[1]
        IN  /\ num = 0 => fnRet[1] = <<65>>
            /\ num = 25 => fnRet[1] = <<90>>
            /\ num = 26 => fnRet[1] = <<65, 65>>
            /\ num = 701 => fnRet[1] = <<90, 90>>
            /\ num = 702 => fnRet[1] = <<65, 65, 65>>
            /\ \A i \in 0..(num - 1) :
                  ShortLexLess(
                      zeroBasedColumnNumberToSpreadsheetColumnLetters(i),
                      fnRet[1])

C9_Witness == fnArgs = <<702>> /\ fnRet = << <<65, 65, 65>> >>

\* C10: within one insert or update call the field list is the header of
\* the very block the records were projected from.
C10_SingleSnapshot ==
    (call.op \in {"insert", "update"} /\ fieldsCalls > 0) =>
        fields = FieldsOf(<<queryHeader>>)

====
